---- MODULE Spec2Model ----
(***************************************************************************)
(* State-machine model of the live tutoring session engine.                *)
(*                                                                         *)
(* The repository holds two builds of the App component:                   *)
(*   "App"      : src/App.tsx          (screen share, two audio contexts)  *)
(*   "part_000" : src/unnamed/part_000 (camera, one audio context,         *)
(*                                      MediaRecorder)                     *)
(* The variable `file` fixes which build a behaviour runs.                 *)
(*                                                                         *)
(* Every call of startSession is one invocation, numbered 1, 2, ... in the *)
(* order of the calls.  An invocation owns the objects its closure created *)
(* (audio context, device streams, recorder, channel, frame timer); the    *)
(* refs of the component (xxxRef) hold the number of the invocation whose  *)
(* object they point to, or 0 for null.                                    *)
(*                                                                         *)
(* In App.tsx audioContextInRef and audioContextOutRef are assigned in     *)
(* consecutive statements and closed in consecutive statements, and are    *)
(* never assigned apart: they are modelled as the single ref               *)
(* audioContextRef, and ctx[i] / clock[i] are the state and the playback   *)
(* clock of the pair created by invocation i.                              *)
(***************************************************************************)
EXTENDS Integers, Sequences, FiniteSets, TLC

(* Bounds of the model. *)
MaxStarts == 2      \* calls of startSession in a behaviour with restarts
MaxMsgs   == 2      \* inbound channel events in a behaviour with one start
MaxClock  == 2      \* highest value of an audio context's playback clock
MaxDur    == 2      \* longest decoded buffer, in clock units
MaxOut    == 2      \* outbound chunks captured in a behaviour that sends
MaxBlock  == 2      \* samples of a microphone block that is encoded
Fraction  == 4      \* a sample is a multiple of 1 / (32768 * Fraction)

Files == {"App", "part_000"}
Invs  == 1..MaxStarts

(* A behaviour either calls startSession up to MaxStarts times, receives    *)
(* one event and sees no time pass, or calls it once, receives up to       *)
(* MaxMsgs events and sees the playback clocks advance up to MaxClock, or  *)
(* calls it once and captures up to MaxOut outbound chunks, or calls it up *)
(* to MaxStarts times and receives up to MaxMsgs events that each carry a  *)
(* decodable chunk of duration 1 and nothing else (plain), or calls it     *)
(* once, captures one outbound chunk and receives up to MaxMsgs events     *)
(* that are plain or carry transcript fields (trans).                      *)
Profiles ==
  {[starts |-> MaxStarts, msgs |-> 1, clock |-> 0, out |-> 0,
    plain |-> FALSE, trans |-> FALSE],
   [starts |-> 1, msgs |-> MaxMsgs, clock |-> MaxClock, out |-> 0,
    plain |-> FALSE, trans |-> FALSE],
   [starts |-> 1, msgs |-> 0, clock |-> 0, out |-> MaxOut,
    plain |-> FALSE, trans |-> FALSE],
   [starts |-> MaxStarts, msgs |-> MaxMsgs, clock |-> 0, out |-> 0,
    plain |-> TRUE, trans |-> FALSE],
   [starts |-> 1, msgs |-> MaxMsgs, clock |-> 0, out |-> 1,
    plain |-> TRUE, trans |-> TRUE]}

VARIABLES
  file,                      \* which build runs
  status,                    \* useState<ConnectionStatus>
  isFullRecordingSupported,  \* useState(true), part_000
  history,                   \* number of RecordedSession entries, part_000
  audioContextRef,           \* audioContextRef / audioContextInRef+OutRef
  sessionRef,
  streamRef,                 \* streamRef (App) / mediaStreamRef (part_000)
  screenStreamRef,           \* App only
  frameIntervalRef,
  mediaRecorderRef,          \* part_000 only
  nextStartTimeRef,          \* the playback watermark
  audioSourcesRef,           \* the in-flight voice set (indices of voices)
  nStarts,                   \* invocations of startSession so far
  pc,                        \* pc[i]: where invocation i of startSession is
  ctx,                       \* ctx[i]: "none" | "running" | "closed"
  clock,                     \* clock[i]: currentTime of the output context
  mic,                       \* mic[i]: "none" | "live" | "ended"
  screen,                    \* screen[i]: display stream, same values
  rec,                       \* rec[i]: "none"|"recording"|"stopping"|"inactive"
  chan,                      \* chan[i]: "none"|"connecting"|"open"|"failed"|"closed"
  timer,                     \* timer[i]: the interval set by i's onopen runs
  voices,                    \* every AudioBufferSourceNode started so far
  pending,                   \* onmessage handlers suspended in the decode await
  nMsgs,                     \* inbound events delivered so far
  quota,                     \* the calls and events this behaviour may use
  transcriptions,            \* useState<TranscriptionItem[]>([]), App
  currentInputTranscriptionRef,   \* fragments of the user's turn so far
  currentOutputTranscriptionRef,  \* fragments of the model's turn so far
  outbox,                    \* outbound chunks captured and not yet sent
  sent,                      \* outbound chunks handed to sendRealtimeInput
  nOut,                      \* outbound chunks captured so far
  combined,                  \* combined[i]: the stream i's MediaRecorder records
  recordingMixerRef,         \* part_000: invocation whose GainNode the ref holds
  sampleRate,                \* sampleRate[i]: rate i's capture context runs at
  inputData,                 \* e.inputBuffer.getChannelData(0) of one block
  int16,                     \* the Int16Array the block is converted into
  data,                      \* new Uint8Array(int16.buffer)
  hist                       \* history kept across steps

refs == <<audioContextRef, sessionRef, streamRef, screenStreamRef,
          frameIntervalRef, mediaRecorderRef>>
objs == <<ctx, clock, mic, screen, rec, chan, timer>>
play == <<nextStartTimeRef, audioSourcesRef, voices, pending>>
out  == <<outbox, sent, nOut>>
transcript == <<transcriptions, currentInputTranscriptionRef,
                currentOutputTranscriptionRef>>
pcm  == <<inputData, int16, data>>
vars == <<file, status, isFullRecordingSupported, history, refs, objs, play,
          nStarts, pc, nMsgs, quota, transcript, pcm, out, combined,
          recordingMixerRef,
          sampleRate, hist>>

Max(a, b) == IF a >= b THEN a ELSE b

(***************************************************************************)
(* The part of the state stopSession reads and writes, as one record, so   *)
(* that stopSession is a function of the state.                            *)
(***************************************************************************)
Cur ==
  [status |-> status, audioContextRef |-> audioContextRef,
   sessionRef |-> sessionRef, streamRef |-> streamRef,
   screenStreamRef |-> screenStreamRef, frameIntervalRef |-> frameIntervalRef,
   mediaRecorderRef |-> mediaRecorderRef, nextStartTimeRef |-> nextStartTimeRef,
   audioSourcesRef |-> audioSourcesRef, history |-> history,
   ctx |-> ctx, mic |-> mic, screen |-> screen, rec |-> rec, timer |-> timer,
   voices |-> voices]

Apply(s) ==
  /\ status' = s.status
  /\ audioContextRef' = s.audioContextRef
  /\ sessionRef' = s.sessionRef
  /\ streamRef' = s.streamRef
  /\ screenStreamRef' = s.screenStreamRef
  /\ frameIntervalRef' = s.frameIntervalRef
  /\ mediaRecorderRef' = s.mediaRecorderRef
  /\ nextStartTimeRef' = s.nextStartTimeRef
  /\ audioSourcesRef' = s.audioSourcesRef
  /\ history' = s.history
  /\ ctx' = s.ctx
  /\ mic' = s.mic
  /\ screen' = s.screen
  /\ rec' = s.rec
  /\ timer' = s.timer
  /\ voices' = s.voices

(* s.stop() inside try/catch: a voice that is playing is force-stopped, a  *)
(* voice that already ended or was stopped stays as it is.                 *)
StopVoice(v) == IF v.st = "playing" THEN [v EXCEPT !.st = "stopped"] ELSE v

(* audioSourcesRef.current.forEach(s => { try { s.stop() } catch {} });    *)
(* audioSourcesRef.current.clear()                                         *)
StopAllVoices(s) ==
  [s EXCEPT !.voices = [v \in DOMAIN s.voices |->
                          IF v \in s.audioSourcesRef THEN StopVoice(s.voices[v])
                          ELSE s.voices[v]],
            !.audioSourcesRef = {}]

(* if (frameIntervalRef.current) { clearInterval(...); ... = null }        *)
ClearFrameInterval(s) ==
  IF s.frameIntervalRef # 0
  THEN [s EXCEPT !.timer[s.frameIntervalRef] = FALSE, !.frameIntervalRef = 0]
  ELSE s

(* if (streamRef.current) { getTracks().forEach(t => t.stop()); = null }   *)
StopStream(s) ==
  IF s.streamRef # 0
  THEN [s EXCEPT !.mic[s.streamRef] = "ended", !.streamRef = 0]
  ELSE s

StopScreenStream(s) ==
  IF s.screenStreamRef # 0
  THEN [s EXCEPT !.screen[s.screenStreamRef] = "ended", !.screenStreamRef = 0]
  ELSE s

(* Mutant of StopRecorder: the state guard is missing and every call       *)
(* finalises an artifact.                                                  *)
StopRecorder_NoGuard(s) ==
  IF s.mediaRecorderRef # 0
  THEN [s EXCEPT !.rec[s.mediaRecorderRef] = "inactive",
                 !.history = s.history + 1]
  ELSE s

(* mediaRecorderRef.current.state !== 'inactive' => stop(): the recorder   *)
(* goes inactive at once and its stop event is queued.                     *)
StopRecorder(s) ==
  IF s.mediaRecorderRef # 0 /\ s.rec[s.mediaRecorderRef] = "recording"
  THEN [s EXCEPT !.rec[s.mediaRecorderRef] = "stopping"]
  ELSE s

(* AudioContext.close(): a running context closes; closing a closed one    *)
(* changes nothing (the promise it returns is not awaited).                *)
CloseContext(c) == IF c = "running" THEN "closed" ELSE c

(* src/App.tsx: the context refs are closed and kept. *)
CloseContexts_App(s) ==
  IF s.audioContextRef # 0
  THEN [s EXCEPT !.ctx[s.audioContextRef] = CloseContext(s.ctx[s.audioContextRef])]
  ELSE s

(* part_000: the context ref is closed and set to null. *)
CloseContext_part_000(s) ==
  IF s.audioContextRef # 0
  THEN [s EXCEPT !.ctx[s.audioContextRef] = CloseContext(s.ctx[s.audioContextRef]),
                 !.audioContextRef = 0]
  ELSE s

stopSession_App(s) ==
  LET s1 == ClearFrameInterval(s)
      s2 == [s1 EXCEPT !.sessionRef = 0]
      s3 == StopStream(s2)
      s4 == StopScreenStream(s3)
      s5 == StopAllVoices(s4)
      s6 == CloseContexts_App(s5)
  IN  [s6 EXCEPT !.status = "disconnected"]

stopSession_part_000(s) ==
  LET s0 == StopRecorder(s)
      s1 == ClearFrameInterval(s0)
      s2 == [s1 EXCEPT !.sessionRef = 0]
      s3 == StopStream(s2)
      s5 == StopAllVoices(s3)
      s6 == CloseContext_part_000(s5)
  IN  [s6 EXCEPT !.status = "disconnected"]

stopSession(s) ==
  IF file = "App" THEN stopSession_App(s) ELSE stopSession_part_000(s)

(***************************************************************************)
(* stopSession statement by statement.  StopSteps is the order of its      *)
(* statements; TeardownStep(g, s) is the effect of statement g.            *)
(***************************************************************************)
StopSteps ==
  IF file = "App"
  THEN <<"timer", "session", "stream", "screen", "voices", "context", "status">>
  ELSE <<"recorder", "timer", "session", "stream", "voices", "context",
         "status">>

TeardownStep(g, s) ==
  CASE g = "recorder" -> StopRecorder(s)
    [] g = "timer"    -> ClearFrameInterval(s)
    [] g = "session"  -> [s EXCEPT !.sessionRef = 0]
    [] g = "stream"   -> StopStream(s)
    [] g = "screen"   -> StopScreenStream(s)
    [] g = "voices"   -> StopAllVoices(s)
    [] g = "context"  -> IF file = "App" THEN CloseContexts_App(s)
                         ELSE CloseContext_part_000(s)
    [] g = "status"   -> [s EXCEPT !.status = "disconnected"]

(* The state in which statement g begins: the statements before it have    *)
(* run ("end": all of them have).                                          *)
RECURSIVE RunUntil(_, _, _)
RunUntil(steps, s, g) ==
  IF steps = <<>> \/ Head(steps) = g THEN s
  ELSE RunUntil(Tail(steps), TeardownStep(Head(steps), s), g)

(* Statement g makes its platform call in state s (its guard holds), so    *)
(* the call can raise.                                                     *)
Calls(g, s) ==
  CASE g = "recorder" -> s.mediaRecorderRef # 0
                           /\ s.rec[s.mediaRecorderRef] = "recording"
    [] g = "stream"   -> s.streamRef # 0
    [] g = "screen"   -> s.screenStreamRef # 0
    [] g = "voices"   -> s.audioSourcesRef # {}
    [] g = "context"  -> s.audioContextRef # 0
    [] OTHER          -> FALSE

(* stopSession when the platform call of statement f raises.  Only the     *)
(* voice stop is inside try/catch: the voice is left as it is and the loop *)
(* and the clear() go on.  An exception of any other statement leaves      *)
(* stopSession, and the statements after it do not run.                    *)
RECURSIVE stopSessionRaising(_, _, _)
stopSessionRaising(steps, s, f) ==
  IF steps = <<>> THEN s
  ELSE LET g == Head(steps) IN
       IF g = f /\ Calls(g, s)
       THEN IF g = "voices"
            THEN stopSessionRaising(Tail(steps),
                                    [s EXCEPT !.audioSourcesRef = {}], f)
            ELSE s
       ELSE stopSessionRaising(Tail(steps), TeardownStep(g, s), f)

(***************************************************************************)
(* History.  hist keeps: stopFrom, the status from which stopSession last  *)
(* ran since the last call of startSession ("none" if it has not); run,    *)
(* the number of interruptions handled; anchor, the highest device clock   *)
(* read by an inbound-audio handler since the last voice was started or    *)
(* the watermark was reset; audio, the number of inbound events that       *)
(* carried a decodable audio payload.  Every event is numbered by its      *)
(* arrival (seq), and a voice keeps the number of the event it plays and   *)
(* the device clock at the moment it was started (at); intr, the number of *)
(* the last event whose interrupted flag was handled; tick, whether the    *)
(* last frame timer tick found a frame ready ("ready") or not ("skip");    *)
(* frags, the number of transcript fragments received; tc, the number of   *)
(* the last event that carried turnComplete.                               *)
(***************************************************************************)

(***************************************************************************)
(* Initial state: the component after its first render.                    *)
(***************************************************************************)
InitSession ==
  /\ file \in Files
  /\ status = "disconnected"
  /\ isFullRecordingSupported = TRUE
  /\ history = 0
  /\ audioContextRef = 0 /\ sessionRef = 0 /\ streamRef = 0
  /\ screenStreamRef = 0 /\ frameIntervalRef = 0 /\ mediaRecorderRef = 0
  /\ nextStartTimeRef = 0
  /\ audioSourcesRef = {}
  /\ nStarts = 0
  /\ pc = [i \in Invs |-> "idle"]
  /\ ctx = [i \in Invs |-> "none"]
  /\ clock = [i \in Invs |-> 0]
  /\ mic = [i \in Invs |-> "none"]
  /\ screen = [i \in Invs |-> "none"]
  /\ rec = [i \in Invs |-> "none"]
  /\ chan = [i \in Invs |-> "none"]
  /\ timer = [i \in Invs |-> FALSE]
  /\ voices = <<>>
  /\ pending = <<>>
  /\ nMsgs = 0
  /\ quota \in Profiles
  /\ transcriptions = <<>>
  /\ currentInputTranscriptionRef = <<>>
  /\ currentOutputTranscriptionRef = <<>>
  /\ outbox = <<>>
  /\ sent = <<>>
  /\ nOut = 0
  /\ combined = [i \in Invs |-> "none"]
  /\ recordingMixerRef = 0
  /\ sampleRate = [i \in Invs |-> 0]
  /\ hist = [stopFrom |-> "none", run |-> 0, anchor |-> 0, audio |-> 0,
             intr |-> 0, tick |-> "none", frags |-> 0, tc |-> 0]

(* No microphone block has been delivered yet. *)
Init == InitSession /\ inputData = <<>> /\ int16 = <<>> /\ data = <<>>

(***************************************************************************)
(* startSession.  The start control is rendered while status is            *)
(* disconnected or error.                                                  *)
(***************************************************************************)

(* catch (err) { setError(...); setStatus('disconnected'); ... }           *)
Catch(i) ==
  /\ status' = "disconnected"
  /\ pc' = [pc EXCEPT ![i] = "failed"]

(* new AudioContext({ sampleRate: N }) with N = 16000 (App.tsx 89) or     *)
(* 44100 (part_000 92).                                                    *)
RequestedRate == IF file = "App" THEN 16000 ELSE 44100

(* The rate of the audio hardware: the legacy constructor the code falls   *)
(* back to (webkitAudioContext) takes no options and runs at this rate.    *)
HardwareRates == {48000}

(* The rate the capture context of a new session runs at.  It shows only   *)
(* in the tag of outbound audio chunks.                                    *)
ContextRates ==
  IF quota.out > 0 THEN {RequestedRate} \cup HardwareRates ELSE {RequestedRate}

(* mimeType: 'audio/pcm;rate=16000' (App.tsx 136) or                        *)
(* 'audio/pcm;rate=44100' (part_000 194).                                  *)
AudioTag == IF file = "App" THEN 16000 ELSE 44100

(* App.tsx 76-93: up to the first await.  Without getDisplayMedia the      *)
(* support check throws before anything is acquired.                       *)
startSession_App ==
  /\ file = "App"
  /\ status \in {"disconnected", "error"}
  /\ nStarts < quota.starts
  /\ hist' = [hist EXCEPT !.stopFrom = "none"]
  /\ LET i == nStarts + 1 IN
     /\ nStarts' = i
     /\ \E supported \in BOOLEAN :
          IF supported
          THEN /\ status' = "connecting"
               /\ ctx' = [ctx EXCEPT ![i] = "running"]
               /\ \E r \in ContextRates :
                    sampleRate' = [sampleRate EXCEPT ![i] = r]
               /\ audioContextRef' = i
               /\ pc' = [pc EXCEPT ![i] = "getUserMedia"]
          ELSE /\ Catch(i)
               /\ UNCHANGED <<ctx, audioContextRef, sampleRate>>
  /\ UNCHANGED <<file, isFullRecordingSupported, history, sessionRef, streamRef,
                 screenStreamRef, frameIntervalRef, mediaRecorderRef, clock,
                 mic, screen, rec, chan, timer, play, nMsgs, quota, transcript, pcm,
                 recordingMixerRef, combined, out>>

(* part_000 82-97: a suspended context is resumed with an await before the *)
(* ref is assigned.                                                        *)
startSession_part_000 ==
  /\ file = "part_000"
  /\ status \in {"disconnected", "error"}
  /\ nStarts < quota.starts
  /\ hist' = [hist EXCEPT !.stopFrom = "none"]
  /\ LET i == nStarts + 1 IN
     /\ nStarts' = i
     /\ status' = "connecting"
     /\ ctx' = [ctx EXCEPT ![i] = "running"]
     /\ \E r \in ContextRates : sampleRate' = [sampleRate EXCEPT ![i] = r]
     /\ \E suspended \in BOOLEAN :
          IF suspended
          THEN /\ pc' = [pc EXCEPT ![i] = "resume"]
               /\ UNCHANGED audioContextRef
          ELSE /\ pc' = [pc EXCEPT ![i] = "getUserMedia"]
               /\ audioContextRef' = i
  /\ UNCHANGED <<file, isFullRecordingSupported, history, sessionRef, streamRef,
                 screenStreamRef, frameIntervalRef, mediaRecorderRef, clock,
                 mic, screen, rec, chan, timer, play, nMsgs, quota, transcript, pcm, recordingMixerRef, combined, out>>

(* part_000 93-94: await ctx.resume() returns or throws. *)
ResumeReturns(i) ==
  /\ pc[i] = "resume"
  /\ \E ok \in BOOLEAN :
       IF ok
       THEN /\ audioContextRef' = i
            /\ pc' = [pc EXCEPT ![i] = "getUserMedia"]
            /\ UNCHANGED status
       ELSE /\ Catch(i)
            /\ UNCHANGED audioContextRef
  /\ UNCHANGED <<file, isFullRecordingSupported, history, sessionRef, streamRef,
                 screenStreamRef, frameIntervalRef, mediaRecorderRef, objs,
                 play, nStarts, nMsgs, quota, transcript, pcm, sampleRate, recordingMixerRef, combined, out, hist>>

(* App.tsx 93-94: the microphone request returns or throws. *)
GetUserMedia_App(i) ==
  /\ file = "App"
  /\ pc[i] = "getUserMedia"
  /\ \E ok \in BOOLEAN :
       IF ok
       THEN /\ mic' = [mic EXCEPT ![i] = "live"]
            /\ streamRef' = i
            /\ pc' = [pc EXCEPT ![i] = "getDisplayMedia"]
            /\ UNCHANGED status
       ELSE /\ Catch(i)
            /\ UNCHANGED <<mic, streamRef>>
  /\ UNCHANGED <<file, isFullRecordingSupported, history, audioContextRef,
                 sessionRef, screenStreamRef, frameIntervalRef, mediaRecorderRef,
                 ctx, clock, screen, rec, chan, timer, play, nStarts, nMsgs, quota, transcript, pcm, sampleRate, recordingMixerRef, combined, out, hist>>

(* App.tsx 97-117: the display request returns or throws; on success the   *)
(* channel is opened and the function awaits sessionPromise.               *)
GetDisplayMedia_App(i) ==
  /\ pc[i] = "getDisplayMedia"
  /\ \E ok \in BOOLEAN :
       IF ok
       THEN /\ screen' = [screen EXCEPT ![i] = "live"]
            /\ screenStreamRef' = i
            /\ chan' = [chan EXCEPT ![i] = "connecting"]
            /\ pc' = [pc EXCEPT ![i] = "connect"]
            /\ UNCHANGED status
       ELSE /\ Catch(i)
            /\ UNCHANGED <<screen, screenStreamRef, chan>>
  /\ UNCHANGED <<file, isFullRecordingSupported, history, audioContextRef,
                 sessionRef, streamRef, frameIntervalRef, mediaRecorderRef,
                 ctx, clock, mic, rec, timer, play, nStarts, nMsgs, quota, transcript, pcm, sampleRate, recordingMixerRef, combined, out, hist>>

(* part_000 115-143: the recording graph inside try/catch.  When it is     *)
(* built the recorder gets the video track with the mixed audio track,     *)
(* otherwise the capture stream itself; the flag tells which.  The graph   *)
(* can fail before the GainNode is stored in recordingMixerRef (line 125:  *)
(* no destination node on this platform) or after it (mixer).              *)
CombinedStream(mixing) == IF mixing THEN "mixed" ELSE "basic"

(* Mutant of FullRecording: the catch branch does not clear the flag. *)
FullRecording_AlwaysTrue(mixing) == TRUE

FullRecording(mixing) == mixing

(* part_000 97-169: camera+microphone request; then, with no await in      *)
(* between, the recording graph (try/catch: mixed or basic capture), the   *)
(* MediaRecorder, and the channel connect.                                 *)
GetUserMedia_part_000(i) ==
  /\ file = "part_000"
  /\ pc[i] = "getUserMedia"
  /\ \E ok \in BOOLEAN, mixing \in BOOLEAN, mixer \in BOOLEAN,
        recorder \in BOOLEAN :
       IF ok
       THEN /\ mixing => mixer
            /\ mic' = [mic EXCEPT ![i] = "live"]
            /\ streamRef' = i
            /\ recordingMixerRef' = IF mixer THEN i ELSE recordingMixerRef
            /\ isFullRecordingSupported' = FullRecording(mixing)
            /\ IF recorder
               THEN /\ mediaRecorderRef' = i
                    /\ rec' = [rec EXCEPT ![i] = "recording"]
                    /\ combined' = [combined EXCEPT ![i] = CombinedStream(mixing)]
                    /\ chan' = [chan EXCEPT ![i] = "connecting"]
                    /\ pc' = [pc EXCEPT ![i] = "connect"]
                    /\ UNCHANGED status
               ELSE /\ Catch(i)
                    /\ UNCHANGED <<mediaRecorderRef, rec, combined, chan>>
       ELSE /\ mixing /\ mixer /\ recorder
            /\ Catch(i)
            /\ UNCHANGED <<mic, streamRef, isFullRecordingSupported,
                           mediaRecorderRef, rec, combined, chan,
                           recordingMixerRef>>
  /\ UNCHANGED <<file, history, audioContextRef, sessionRef, screenStreamRef,
                 frameIntervalRef, ctx, clock, screen, timer, play, nStarts,
                 nMsgs, quota, transcript, pcm, sampleRate, out, hist>>

(* ai.live.connect rejects: the await throws into the catch block. *)
ConnectRejects(i) ==
  /\ pc[i] = "connect"
  /\ chan[i] = "connecting"
  /\ chan' = [chan EXCEPT ![i] = "closed"]
  /\ Catch(i)
  /\ UNCHANGED <<file, isFullRecordingSupported, history, refs, ctx, clock, mic,
                 screen, rec, timer, play, nStarts, nMsgs, quota, transcript, pcm, sampleRate, recordingMixerRef, combined, out, hist>>

(* callbacks.onopen: setStatus('connected'), the capture bridge, and the   *)
(* frame interval, whose id is stored in frameIntervalRef.                 *)
onopen(i) ==
  /\ chan[i] = "connecting"
  /\ pc[i] = "connect"
  /\ chan' = [chan EXCEPT ![i] = "open"]
  /\ status' = "connected"
  /\ timer' = [timer EXCEPT ![i] = TRUE]
  /\ frameIntervalRef' = i
  /\ pc' = [pc EXCEPT ![i] = "opened"]
  /\ UNCHANGED <<file, isFullRecordingSupported, history, audioContextRef,
                 sessionRef, streamRef, screenStreamRef, mediaRecorderRef,
                 ctx, clock, mic, screen, rec, play, nStarts, nMsgs, quota, transcript, pcm, sampleRate, recordingMixerRef, combined, out, hist>>

(* session.sendRealtimeInput(...) on the channel of invocation i: a chunk  *)
(* goes out while the channel is open.                                     *)
Send(s, c) == IF chan[c.inv] = "open" THEN Append(s, c) ELSE s

(* Mutant of SendAll: the queued callbacks run last-queued first. *)
RECURSIVE SendAll_Reversed(_, _)
SendAll_Reversed(s, q) ==
  IF q = <<>> THEN s
  ELSE SendAll_Reversed(Send(s, q[Len(q)]), SubSeq(q, 1, Len(q) - 1))

RECURSIVE SendAll(_, _)
SendAll(s, q) == IF q = <<>> THEN s ELSE SendAll(Send(s, Head(q)), Tail(q))

AudioOf(i, q) == SelectSeq(q, LAMBDA c : c.inv = i /\ c.kind = "audio")
NotAudioOf(i, q) == SelectSeq(q, LAMBDA c : ~(c.inv = i /\ c.kind = "audio"))

(* sessionRef.current = await sessionPromise: the continuation, once the   *)
(* handshake has completed; the then-callbacks the microphone blocks have  *)
(* queued on sessionPromise run right after it, in the order they were     *)
(* queued.                                                                 *)
ConnectResolves(i) ==
  /\ pc[i] = "opened"
  /\ sessionRef' = i
  /\ pc' = [pc EXCEPT ![i] = "done"]
  /\ sent' = SendAll(sent, AudioOf(i, outbox))
  /\ outbox' = NotAudioOf(i, outbox)
  /\ UNCHANGED <<file, status, isFullRecordingSupported, history,
                 audioContextRef, streamRef, screenStreamRef, frameIntervalRef,
                 mediaRecorderRef, objs, play, nStarts, nMsgs, quota, transcript, pcm, sampleRate, recordingMixerRef, combined, nOut,
                 hist>>

(***************************************************************************)
(* stopSession and its three callers.                                      *)
(***************************************************************************)

(* The stop control: App.tsx renders it whenever status is connecting or   *)
(* connected; part_000 disables the toggle while connecting.               *)
StopOffered ==
  IF file = "App" THEN status \in {"connecting", "connected"}
  ELSE status = "connected"

UserStop ==
  /\ StopOffered
  /\ Apply(stopSession(Cur))
  /\ hist' = [hist EXCEPT !.stopFrom = status]
  /\ UNCHANGED <<file, isFullRecordingSupported, clock, chan, pending, nStarts,
                 pc, nMsgs, quota, transcript, pcm, sampleRate, recordingMixerRef, combined, out>>

(* callbacks.onerror: setError(...); stopSession() *)
onerror(i) ==
  /\ chan[i] \in {"connecting", "open"}
  /\ chan' = [chan EXCEPT ![i] = "failed"]
  /\ Apply(stopSession(Cur))
  /\ hist' = [hist EXCEPT !.stopFrom = status]
  /\ UNCHANGED <<file, isFullRecordingSupported, clock, pending, nStarts, pc,
                 nMsgs, quota, transcript, pcm, sampleRate, recordingMixerRef, combined, out>>

(* callbacks.onclose: stopSession() *)
onclose(i) ==
  /\ chan[i] \in {"connecting", "open", "failed"}
  /\ chan' = [chan EXCEPT ![i] = "closed"]
  /\ Apply(stopSession(Cur))
  /\ hist' = [hist EXCEPT !.stopFrom = status]
  /\ UNCHANGED <<file, isFullRecordingSupported, clock, pending, nStarts, pc,
                 nMsgs, quota, transcript, pcm, sampleRate, recordingMixerRef, combined, out>>

(* recorder.onstop: the queued stop event adds one entry to the history.   *)
RecorderOnStop(i) ==
  /\ rec[i] = "stopping"
  /\ rec' = [rec EXCEPT ![i] = "inactive"]
  /\ history' = history + 1
  /\ UNCHANGED <<file, status, isFullRecordingSupported, refs, ctx, clock, mic,
                 screen, chan, timer, play, nStarts, pc, nMsgs, quota, transcript, pcm, sampleRate, recordingMixerRef, combined, out, hist>>

(***************************************************************************)
(* Outbound chunks: the capture bridge and the frame interval set up by    *)
(* onopen.                                                                 *)
(***************************************************************************)

(* scriptProcessor.onaudioprocess: the block is encoded at once and        *)
(* sessionPromise.then(session => session.sendRealtimeInput(...)) sends it *)
(* right away when the promise has resolved, and queues it otherwise.  The *)
(* processor delivers blocks while its context runs.  nOut counts the      *)
(* capture callbacks (microphone blocks and frame timer ticks) and numbers *)
(* the chunk a callback produces.                                          *)
onaudioprocess(i) ==
  /\ pc[i] \in {"opened", "done"}
  /\ ctx[i] = "running"
  /\ nOut < quota.out
  /\ nOut' = nOut + 1
  /\ LET c == [inv |-> i, kind |-> "audio", n |-> nOut + 1,
               rate |-> AudioTag, early |-> pc[i] # "done"] IN
       IF pc[i] = "done"
       THEN sent' = Send(sent, c) /\ UNCHANGED outbox
       ELSE outbox' = Append(outbox, c) /\ UNCHANGED sent
  /\ UNCHANGED <<file, status, isFullRecordingSupported, history, refs, objs,
                 play, nStarts, pc, nMsgs, quota, transcript, pcm, sampleRate, recordingMixerRef,
                 combined, hist>>

(* Mutant of Sample: a tick without a ready frame emits a chunk as well. *)
Sample_Always(ready, q, c) == Append(q, c)

(* if (!ctx || !videoEl.videoWidth) return; (App.tsx 155)                  *)
(* if (!vCtx || !video || video.readyState !== 4) return; (part_000 203)   *)
Sample(ready, q, c) == IF ready THEN Append(q, c) ELSE q

(* The interval callback: without a ready frame or a drawing context it    *)
(* returns; otherwise the frame is drawn and canvas.toBlob starts the      *)
(* compression, which completes later.                                     *)
FrameTick(i) ==
  /\ timer[i]
  /\ nOut < quota.out
  /\ nOut' = nOut + 1
  /\ \E ready \in BOOLEAN :
       /\ outbox' = Sample(ready, outbox,
                           [inv |-> i, kind |-> "image", n |-> nOut + 1,
                            rate |-> 0, early |-> pc[i] # "done"])
       /\ hist' = [hist EXCEPT !.tick = IF ready THEN "ready" ELSE "skip"]
  /\ UNCHANGED <<file, status, isFullRecordingSupported, history, refs, objs,
                 play, nStarts, pc, nMsgs, quota, transcript, pcm, sampleRate, recordingMixerRef,
                 combined, sent>>

(* Mutant of FrameReady: sending a frame also empties the in-flight set. *)
FrameReady_ClearsVoices(k) ==
  /\ outbox[k].kind = "image"
  /\ pc[outbox[k].inv] = "done"
  /\ \E blob \in BOOLEAN :
       sent' = IF blob THEN Send(sent, outbox[k]) ELSE sent
  /\ outbox' = [j \in 1..(Len(outbox) - 1) |->
                  IF j < k THEN outbox[j] ELSE outbox[j + 1]]
  /\ audioSourcesRef' = {}
  /\ UNCHANGED <<file, status, isFullRecordingSupported, history, refs, objs,
                 nextStartTimeRef, voices, pending, nStarts, pc, nMsgs, quota,
                 transcript, pcm, sampleRate, recordingMixerRef, combined, nOut,
                 hist>>

(* toBlob callback (nothing is sent when it delivers no blob),             *)
(* reader.onloadend, and the then-callback on sessionPromise: the frame k  *)
(* of the outbox is sent once the promise has resolved.                    *)
FrameReady(k) ==
  /\ outbox[k].kind = "image"
  /\ pc[outbox[k].inv] = "done"
  /\ \E blob \in BOOLEAN :
       sent' = IF blob THEN Send(sent, outbox[k]) ELSE sent
  /\ outbox' = [j \in 1..(Len(outbox) - 1) |->
                  IF j < k THEN outbox[j] ELSE outbox[j + 1]]
  /\ UNCHANGED <<file, status, isFullRecordingSupported, history, refs, objs,
                 play, nStarts, pc, nMsgs, quota, transcript, pcm, sampleRate, recordingMixerRef,
                 combined, nOut, hist>>

(***************************************************************************)
(* Inbound events: callbacks.onmessage.                                    *)
(***************************************************************************)

(* What an event carries at serverContent.modelTurn.parts[0].inlineData:   *)
(* nothing, PCM16 bytes that decode to a buffer of duration dur, or bytes  *)
(* the decoder rejects.                                                    *)
Payloads ==
  {[kind |-> "none", dur |-> 0], [kind |-> "bad", dur |-> 0]}
    \cup {[kind |-> "pcm", dur |-> d] : d \in 1..MaxDur}

(* if (message.serverContent?.interrupted) { stop all; clear; wm = 0 }     *)
Interrupt(s) == [StopAllVoices(s) EXCEPT !.nextStartTimeRef = 0]

(* Mutant of Reanchor: the watermark is not raised to the device clock.    *)
Reanchor_NoMax(wm, now) == wm

(* nextStartTimeRef.current = Math.max(nextStartTimeRef.current,           *)
(*                                     ctx.currentTime)                    *)
Reanchor(wm, now) == Max(wm, now)

(* Mutant of Schedule: a chunk that arrives while a voice is in flight is   *)
(* dropped.                                                                *)
Schedule_DropWhenBusy(s, h) ==
  IF s.audioSourcesRef # {}
  THEN s
  ELSE [s EXCEPT !.voices = Append(s.voices,
                    [ctx |-> h.ctx, start |-> s.nextStartTimeRef,
                     dur |-> h.dur, st |-> "playing", clk |-> h.clk,
                     anchor |-> hist.anchor, run |-> hist.run,
                     seq |-> h.seq, at |-> clock[h.ctx]]),
                 !.nextStartTimeRef = s.nextStartTimeRef + h.dur,
                 !.audioSourcesRef = {Len(s.voices) + 1}]

(* source.start(nextStartTimeRef.current); nextStartTimeRef.current +=     *)
(* audioBuffer.duration; audioSourcesRef.current.add(source)               *)
Schedule(s, h) ==
  LET v == [ctx |-> h.ctx, start |-> s.nextStartTimeRef, dur |-> h.dur,
            st |-> "playing", clk |-> h.clk, anchor |-> hist.anchor,
            run |-> hist.run, seq |-> h.seq, at |-> clock[h.ctx]]
  IN  [s EXCEPT !.voices = Append(s.voices, v),
                !.nextStartTimeRef = s.nextStartTimeRef + h.dur,
                !.audioSourcesRef = s.audioSourcesRef \cup {Len(s.voices) + 1}]

(* The handler, on an event without transcript fields, up to its first     *)
(* await (or to its end, when the event has no audio or no output context  *)
(* is referenced).                                                         *)
onmessage(i) ==
  /\ chan[i] = "open"
  /\ nMsgs < quota.msgs
  /\ nMsgs' = nMsgs + 1
  /\ \E a \in Payloads, intr \in BOOLEAN :
       /\ a.kind # "none" \/ intr
       /\ quota.plain => (a = [kind |-> "pcm", dur |-> 1] /\ ~intr)
       /\ IF a.kind # "none" /\ audioContextRef # 0
          THEN /\ nextStartTimeRef' =
                    Reanchor(nextStartTimeRef, clock[audioContextRef])
               /\ pending' = Append(pending,
                    [ctx |-> audioContextRef, kind |-> a.kind, dur |-> a.dur,
                     intr |-> intr, clk |-> clock[audioContextRef],
                     seq |-> nMsgs + 1])
               /\ hist' = [hist EXCEPT
                             !.anchor = Max(@, clock[audioContextRef]),
                             !.audio = IF a.kind = "pcm" THEN @ + 1 ELSE @]
               /\ UNCHANGED <<audioSourcesRef, voices>>
          ELSE /\ intr
               /\ LET s == Interrupt(Cur) IN
                    /\ nextStartTimeRef' = s.nextStartTimeRef
                    /\ audioSourcesRef' = s.audioSourcesRef
                    /\ voices' = s.voices
               /\ hist' = [hist EXCEPT
                             !.run = @ + 1, !.anchor = 0, !.intr = nMsgs + 1,
                             !.audio = IF a.kind = "pcm" THEN @ + 1 ELSE @]
               /\ UNCHANGED pending
  /\ UNCHANGED <<file, status, isFullRecordingSupported, history, refs, objs,
                 nStarts, pc, quota, transcript, pcm, sampleRate, recordingMixerRef, combined, out>>

(* .slice(-50): the last n elements of s. *)
Slice(s, n) == IF Len(s) <= n THEN s ELSE SubSeq(s, Len(s) - n + 1, Len(s))

(* Keep history manageable: [...].slice(-50) *)
TranscriptCap == 50

(* Mutant of Accumulate: a fragment replaces what was accumulated. *)
Accumulate_Overwrite(acc, present, n) == IF present THEN <<n>> ELSE acc

(* currentOutputTranscriptionRef.current += ...text: a text is the         *)
(* sequence of the numbers of the events whose fragments it concatenates.  *)
Accumulate(acc, present, n) == IF present THEN Append(acc, n) ELSE acc

(* setTranscriptions(prev => [...prev, ...(uTrans ? [user entry] : []),    *)
(*                            ...(mTrans ? [model entry] : [])].slice(-50)) *)
(* Date.now() is the number of the event.                                  *)
Flush(prev, uTrans, mTrans, now) ==
  Slice(prev
        \o (IF uTrans # <<>>
            THEN <<[role |-> "user", text |-> uTrans, timestamp |-> now]>>
            ELSE <<>>)
        \o (IF mTrans # <<>>
            THEN <<[role |-> "model", text |-> mTrans, timestamp |-> now]>>
            ELSE <<>>),
        TranscriptCap)

(* App.tsx 179-199, the handler on an event that carries transcript fields *)
(* or turnComplete and neither audio nor the interrupted flag (the rest of *)
(* the handler does nothing on it): if (outputTranscription) ... else if   *)
(* (inputTranscription) ...; if (turnComplete) { flush; both refs = '' }.  *)
(* part_000 has no transcript handling.                                    *)
onmessage_transcription(i) ==
  /\ file = "App"
  /\ quota.trans
  /\ chan[i] = "open"
  /\ nMsgs < quota.msgs
  /\ nMsgs' = nMsgs + 1
  /\ \E outputTranscription, inputTranscription, turnComplete \in BOOLEAN :
       /\ outputTranscription \/ inputTranscription \/ turnComplete
       /\ LET n == nMsgs + 1
              mTrans == Accumulate(currentOutputTranscriptionRef,
                                   outputTranscription, n)
              uTrans == Accumulate(currentInputTranscriptionRef,
                                   ~outputTranscription /\ inputTranscription,
                                   n)
          IN  /\ IF turnComplete
                 THEN /\ transcriptions' =
                           IF uTrans # <<>> \/ mTrans # <<>>
                           THEN Flush(transcriptions, uTrans, mTrans, n)
                           ELSE transcriptions
                      /\ currentInputTranscriptionRef' = <<>>
                      /\ currentOutputTranscriptionRef' = <<>>
                 ELSE /\ currentInputTranscriptionRef' = uTrans
                      /\ currentOutputTranscriptionRef' = mTrans
                      /\ UNCHANGED transcriptions
              /\ hist' = [hist EXCEPT
                            !.frags = @ + (IF outputTranscription THEN 1 ELSE 0)
                                        + (IF inputTranscription THEN 1 ELSE 0),
                            !.tc = IF turnComplete THEN n ELSE @]
  /\ UNCHANGED <<file, status, isFullRecordingSupported, history, refs, objs,
                 play, nStarts, pc, quota, pcm, sampleRate, recordingMixerRef,
                 combined, out>>

(* decodeAudioData(decode(...), ctx, 24000, 1) of ./utils/audioHelpers,    *)
(* which is not among the source files: the Audio Buffer Builder fails     *)
(* with DecodeError on a payload whose byte length is not a multiple of 2. *)
DecodeThrows(h) == h.kind = "bad"

(* part_000 234-236: source.connect(recordingMixerRef.current).  An        *)
(* AudioNode cannot be connected to a node of another AudioContext: the    *)
(* call raises InvalidAccessError and the handler ends there.              *)
ConnectThrows(h) ==
  file = "part_000" /\ recordingMixerRef # 0 /\ recordingMixerRef # h.ctx

(* The oldest suspended handler resumes after                              *)
(* await decodeAudioData(decode(base64Audio), ctx, 24000, 1): the decoder  *)
(* throws on a malformed payload, or the connection to a recording mixer   *)
(* of another context throws, and the rest of the handler is skipped;      *)
(* otherwise the voice is built and started, and the interrupted flag of   *)
(* the same event is handled.                                              *)
DecodeReturns ==
  /\ pending # <<>>
  /\ pending' = Tail(pending)
  /\ LET h == Head(pending) IN
       IF DecodeThrows(h) \/ ConnectThrows(h)
       THEN UNCHANGED <<nextStartTimeRef, audioSourcesRef, voices, hist>>
       ELSE LET s1 == Schedule(Cur, h)
                s2 == IF h.intr THEN Interrupt(s1) ELSE s1
            IN  /\ nextStartTimeRef' = s2.nextStartTimeRef
                /\ audioSourcesRef' = s2.audioSourcesRef
                /\ voices' = s2.voices
                /\ hist' = IF h.intr
                           THEN [hist EXCEPT !.run = @ + 1, !.anchor = 0,
                                             !.intr = h.seq]
                           ELSE [hist EXCEPT !.anchor = 0]
  /\ UNCHANGED <<file, status, isFullRecordingSupported, history, refs, objs,
                 nStarts, pc, nMsgs, quota, transcript, pcm, sampleRate, recordingMixerRef, combined, out>>

(* source.start(when): a voice whose start time is already past when it is *)
(* started begins to play at once.                                         *)
EffStart(v) == Max(v.start, v.at)

(* source 'ended' listener: audioSourcesRef.current.delete(source).  The   *)
(* event fires once the voice's context has played it to its end.          *)
VoiceEnded(v) ==
  /\ voices[v].st = "playing"
  /\ ctx[voices[v].ctx] = "running"
  /\ clock[voices[v].ctx] >= EffStart(voices[v]) + voices[v].dur
  /\ voices' = [voices EXCEPT ![v].st = "ended"]
  /\ audioSourcesRef' = audioSourcesRef \ {v}
  /\ UNCHANGED <<file, status, isFullRecordingSupported, history, refs, objs,
                 nextStartTimeRef, pending, nStarts, pc, nMsgs, quota, transcript, pcm, sampleRate, recordingMixerRef, combined, out, hist>>

(* Time passes: the playback clock of every running context advances.      *)
(* The clock is read only by the inbound-audio handler and by              *)
(* source.start, and decides only when a voice ends, so a clock step is    *)
(* taken only while an event can still arrive, a handler is suspended in   *)
(* its decode await, or a voice is still playing.  The clock is followed   *)
(* up to quota.clock, and beyond it until the voices that play have ended. *)
ClockObserved ==
  \/ nMsgs < quota.msgs /\ \E i \in Invs : chan[i] = "open"
  \/ pending # <<>>
  \/ \E v \in DOMAIN voices :
        voices[v].st = "playing" /\ ctx[voices[v].ctx] = "running"

(* A voice that plays in a running context has not reached its end. *)
Draining ==
  \E v \in DOMAIN voices :
     /\ voices[v].st = "playing"
     /\ ctx[voices[v].ctx] = "running"
     /\ clock[voices[v].ctx] < EffStart(voices[v]) + voices[v].dur

Tick ==
  /\ ClockObserved
  /\ \E i \in Invs : ctx[i] = "running"
  /\ Draining \/ \A i \in Invs : ctx[i] = "running" => clock[i] < quota.clock
  /\ clock' = [i \in Invs |-> IF ctx[i] = "running" THEN clock[i] + 1
                              ELSE clock[i]]
  /\ UNCHANGED <<file, status, isFullRecordingSupported, history, refs, ctx,
                 mic, screen, rec, chan, timer, play, nStarts, pc, nMsgs,
                 quota, transcript, pcm, sampleRate, recordingMixerRef, combined, out, hist>>

Next ==
  \/ startSession_App
  \/ startSession_part_000
  \/ \E i \in Invs : ResumeReturns(i)
  \/ \E i \in Invs : GetUserMedia_App(i)
  \/ \E i \in Invs : GetDisplayMedia_App(i)
  \/ \E i \in Invs : GetUserMedia_part_000(i)
  \/ \E i \in Invs : ConnectRejects(i)
  \/ \E i \in Invs : onopen(i)
  \/ \E i \in Invs : ConnectResolves(i)
  \/ UserStop
  \/ \E i \in Invs : onerror(i)
  \/ \E i \in Invs : onclose(i)
  \/ \E i \in Invs : RecorderOnStop(i)
  \/ \E i \in Invs : onaudioprocess(i)
  \/ \E i \in Invs : FrameTick(i)
  \/ \E k \in DOMAIN outbox : FrameReady(k)
  \/ \E i \in Invs : onmessage(i)
  \/ \E i \in Invs : onmessage_transcription(i)
  \/ DecodeReturns
  \/ \E v \in DOMAIN voices : VoiceEnded(v)
  \/ Tick

Spec == Init /\ [][Next]_vars

(* The playback clock of an open context keeps advancing, and the 'ended'  *)
(* event of a voice that has been played to its end is delivered.          *)
FairSpec ==
  /\ Spec
  /\ WF_vars(Tick)
  /\ \A v \in 1..MaxMsgs : WF_vars(v \in DOMAIN voices /\ VoiceEnded(v))

(***************************************************************************)
(* The PCM16 conversion inside scriptProcessor.onaudioprocess (App.tsx     *)
(* 128-135, part_000 186-193).  A sample x is held as the integer          *)
(* x * Scale * Fraction, so that inputData[i] * 32768 is the rational      *)
(* m / Fraction and has a fractional part to truncate.                     *)
(***************************************************************************)

(* int16[i] = inputData[i] * 32768 *)
Scale == 32768

(* The samples a block is drawn from: zero, the smallest fractions, values *)
(* with a fractional part on both sides of zero, the ends of the range     *)
(* [-1, 1), 1.0, and values beyond the range on both sides.                *)
Samples ==
  {0, 1, -1, Fraction + 1, -(Fraction + 1),
   (Scale - 1) * Fraction + (Fraction - 1), -(Scale * Fraction),
   Scale * Fraction, -(Scale * Fraction) - 1, -(Scale + 1) * Fraction,
   (Scale + 1) * Fraction + 1, 2 * Scale * Fraction}

Blocks == UNION {[1..n -> Samples] : n \in 1..MaxBlock}

(* Storing a Number into an Int16Array element applies ToInt16, whose      *)
(* first step drops the fractional part: sign(n) * floor(abs(n)).          *)
Truncate(m) ==
  IF m >= 0 THEN m \div Fraction ELSE -((-m) \div Fraction)

(* Mutant of ToInt16: the value is clamped to the 16-bit range. *)
ToInt16_Clamp(n) ==
  IF n > Scale - 1 THEN Scale - 1 ELSE IF n < -Scale THEN -Scale ELSE n

(* ToInt16: int16bit = n modulo 2^16; int16bit - 2^16 if it is >= 2^15.    *)
ToInt16(n) ==
  LET int16bit == n % 65536 IN
    IF int16bit >= 32768 THEN int16bit - 65536 ELSE int16bit

(* new Uint8Array(int16.buffer): the two bytes of every element, low byte  *)
(* first.                                                                  *)
Uint8Array(a) ==
  [k \in 1..(2 * Len(a)) |->
     LET u == a[(k + 1) \div 2] % 65536 IN
       IF k % 2 = 1 THEN u % 256 ELSE u \div 256]

(* A block of samples is about to be delivered to onaudioprocess. *)
EncInit ==
  /\ InitSession
  /\ inputData \in Blocks
  /\ int16 = <<>>
  /\ data = <<>>

(* const int16 = new Int16Array(l);                                        *)
(* for (let i = 0; i < l; i++) int16[i] = inputData[i] * 32768;            *)
(* ... new Uint8Array(int16.buffer)                                        *)
EncodeBlock ==
  /\ inputData # <<>>
  /\ data = <<>>
  /\ int16' = [k \in 1..Len(inputData) |-> ToInt16(Truncate(inputData[k]))]
  /\ data' = Uint8Array(int16')
  /\ UNCHANGED <<file, status, isFullRecordingSupported, history, refs, objs,
                 play, nStarts, pc, nMsgs, quota, transcript, inputData, out,
                 combined, recordingMixerRef, sampleRate, hist>>

EncSpec == EncInit /\ [][EncodeBlock]_vars

(***************************************************************************)
(* Steps and state predicates the properties are stated with.              *)
(***************************************************************************)
StopStep == UserStop \/ (\E i \in Invs : onerror(i)) \/ (\E i \in Invs : onclose(i))

(* A call of startSession ends in its catch block. *)
CatchStep == \E i \in Invs : pc[i] # "failed" /\ pc'[i] = "failed"

NoTrackLive == \A i \in Invs : mic[i] # "live" /\ screen[i] # "live"
NoContextOpen == \A i \in Invs : ctx[i] # "running"
NoRecorderRunning == \A i \in Invs : rec[i] # "recording"
NoTimerRunning == frameIntervalRef = 0 /\ \A i \in Invs : ~timer[i]

TornDown ==
  /\ status = "disconnected"
  /\ NoTimerRunning
  /\ sessionRef = 0
  /\ NoTrackLive
  /\ audioSourcesRef = {}
  /\ NoContextOpen

(* C1: whenever stopSession has run from the connected state (user stop,   *)
(* onerror or onclose), the status is disconnected, the frame timer is     *)
(* cleared, the channel handle is dropped, every capture track is stopped, *)
(* the in-flight set is empty and every audio context is closed.           *)
C1_StopFromConnectedTearsDown ==
  [][(status = "connected" /\ StopStep) => TornDown']_vars

(* C2: when a call of startSession fails, every resource acquired before   *)
(* the failure (audio contexts, device streams, running recorder) has been *)
(* released by the time the call finishes.                                 *)
C2_FailedStartReleasesAll ==
  [][CatchStep => (NoTrackLive /\ NoContextOpen /\ NoRecorderRunning)']_vars

(* C3: when a call of startSession fails, the status ends in error (and a  *)
(* new start is offered from it).                                          *)
C3_FailedStartEndsInError ==
  [][CatchStep => status' = "error"]_vars

(* C4: stopSession is idempotent: from every reachable state, running it   *)
(* twice in a row leaves the same state (status, refs, devices, contexts,  *)
(* recorder, in-flight set, watermark, recorded artifacts) as running it   *)
(* once.                                                                   *)
C4_StopIdempotent == stopSession(stopSession(Cur)) = stopSession(Cur)

(* stopSession has run from connected, stopped a voice, and running it     *)
(* again changes nothing.                                                  *)
C4_Witness ==
  /\ hist.stopFrom = "connected"
  /\ \E v \in DOMAIN voices : voices[v].st = "stopped"
  /\ \E i \in Invs : ctx[i] = "closed" /\ mic[i] = "ended"
  /\ stopSession(Cur) = Cur

(* The end of the voice started before voice k when no interruption was    *)
(* handled in between, 0 otherwise (the watermark at first use and after   *)
(* an interruption).                                                       *)
PrevEnd(k) ==
  IF k > 1 /\ voices[k - 1].run = voices[k].run
  THEN voices[k - 1].start + voices[k - 1].dur
  ELSE 0

InterruptedEventHandled ==
  \/ \E i \in Invs : onmessage(i) /\ pending' = pending
  \/ DecodeReturns /\ Head(pending).intr

(* C6: handling an interrupted event always leaves the in-flight set empty *)
(* and the watermark at 0.                                                 *)
C6_InterruptClearsPlayback ==
  [][InterruptedEventHandled
       => (audioSourcesRef' = {} /\ nextStartTimeRef' = 0)]_vars

(* A step of the handler of an event that carries audio and no interrupted *)
(* flag: its entry, or its resumption after the decode await.              *)
AudioEventStep ==
  \/ /\ \E i \in Invs : onmessage(i)
     /\ pending' # pending
     /\ ~pending'[Len(pending')].intr
  \/ DecodeReturns /\ ~Head(pending).intr

(* C7: after stopSession has run (and before a new start), an inbound      *)
(* audio event starts no voice, adds nothing to the in-flight set and      *)
(* leaves the watermark unchanged.                                         *)
C7_AudioAfterStopIsNoOp ==
  [][(hist.stopFrom # "none" /\ AudioEventStep)
       => UNCHANGED <<voices, audioSourcesRef, nextStartTimeRef>>]_vars

(* C8: once stopSession has run while the status was connecting, and until *)
(* a new start is requested, the status stays disconnected and no device   *)
(* stream, frame timer or channel handle is stored.                        *)
C8_StopWhileConnectingCancels ==
  hist.stopFrom = "connecting" =>
    /\ status = "disconnected"
    /\ streamRef = 0 /\ screenStreamRef = 0
    /\ frameIntervalRef = 0 /\ sessionRef = 0

(* The decode await of the oldest suspended handler throws. *)
DecodeFails == DecodeReturns /\ DecodeThrows(Head(pending))

(* C9: a malformed payload is dropped: no voice is started or added to the *)
(* in-flight set, the status is unchanged, and the interrupted flag of the *)
(* same event is still honoured.                                           *)
C9_MalformedPayloadDropped ==
  [][DecodeFails =>
       /\ UNCHANGED <<voices, status>>
       /\ audioSourcesRef' \subseteq audioSourcesRef
       /\ Head(pending).intr
            => (audioSourcesRef' = {} /\ nextStartTimeRef' = 0)]_vars

StatusEdges ==
  ({"disconnected", "error"} \X {"connecting"})
    \cup ({"connecting"} \X {"connected"})
    \cup ({"connecting", "connected"} \X {"disconnected", "error"})

(* C10: the status changes only along disconnected|error -> connecting,    *)
(* connecting -> connected, connecting|connected -> disconnected|error.    *)
C10_StatusEdges ==
  [][status' # status => <<status, status'>> \in StatusEdges]_vars

(* The oldest suspended handler resumes with a decoded buffer and starts   *)
(* its voice.                                                              *)
VoiceStarts ==
  DecodeReturns /\ ~DecodeThrows(Head(pending)) /\ ~ConnectThrows(Head(pending))

(* C11: whenever the watermark is read to start a voice it is at least the *)
(* playback clock of the voice's context at that moment, and starting the  *)
(* voice raises the watermark by exactly the voice's duration (before the  *)
(* interrupted flag of the same event, if any, resets it).                 *)
C11_WatermarkAtLeastClock ==
  [][VoiceStarts =>
       /\ nextStartTimeRef >= clock[Head(pending).ctx]
       /\ ~Head(pending).intr
            => nextStartTimeRef' = nextStartTimeRef + Head(pending).dur]_vars

(* stopSession has never run: it cannot run before the first call of       *)
(* startSession, and hist.stopFrom is reset only by a call.                *)
NeverStopped == nStarts <= 1 /\ hist.stopFrom = "none"

Faults == {"recorder", "stream", "screen", "voices", "context"}

(* Statement g has been performed in s: running it again changes nothing. *)
Performed(g, s) == TeardownStep(g, s) = s

(* C13: whichever single platform call of stopSession raises, every other  *)
(* statement is still performed and the status ends disconnected.          *)
C13_TeardownBestEffort ==
  \A f \in Faults :
    LET r == stopSessionRaising(StopSteps, Cur, f) IN
      /\ r.status = "disconnected"
      /\ \A k \in DOMAIN StopSteps :
           StopSteps[k] # f => Performed(StopSteps[k], r)

(* C14: when stopSession begins to release the capture devices, the frame  *)
(* timer is halted, the channel handle is dropped and the in-flight voices *)
(* are already stopped and cleared; the contexts are closed last.          *)
C14_StopOrder ==
  LET b == RunUntil(StopSteps, Cur, "stream")
      c == RunUntil(StopSteps, Cur, "context") IN
    /\ RunUntil(StopSteps, Cur, "end") = stopSession(Cur)
    /\ b.frameIntervalRef = 0 /\ b.sessionRef = 0
    /\ b.audioSourcesRef = {}
    /\ c.streamRef = 0 /\ c.screenStreamRef = 0

(* C15: when stopSession runs while the status is disconnected, it changes *)
(* no part of the session state.                                           *)
C15_StopWhenDisconnectedIsNoOp ==
  [][(status = "disconnected" /\ StopStep)
       => UNCHANGED <<status, refs, ctx, mic, screen, rec, timer, history,
                      nextStartTimeRef, audioSourcesRef, voices>>]_vars

(* C16: after stopSession has run (and before a new start), no outbound    *)
(* chunk, audio or image, is handed to the channel.                        *)
C16_NoOutboundAfterStop ==
  [][(hist.stopFrom # "none") => sent' = sent]_vars

(* C17: when the MediaRecorder of a start is created, the flag             *)
(* isFullRecordingSupported tells whether it records the mixed stream or,  *)
(* the mixing graph having failed, the capture stream alone; either way    *)
(* the start goes on to connect and the status is not changed.             *)
C17_DegradedRecordingNonFatal ==
  [][\A i \in Invs :
       (rec[i] = "none" /\ rec'[i] = "recording") =>
         /\ combined'[i] \in {"mixed", "basic"}
         /\ isFullRecordingSupported' = (combined'[i] = "mixed")
         /\ status' = status
         /\ pc'[i] = "connect" /\ chan'[i] = "connecting"]_vars

(* A session whose mixing graph failed is connected and records the        *)
(* capture stream, with the flag cleared.                                  *)
C17_Witness ==
  /\ status = "connected" /\ nStarts = 1 /\ pc[1] = "done"
  /\ rec[1] = "recording" /\ combined[1] = "basic"
  /\ ~isFullRecordingSupported

(* The session of invocation i has ended: its start failed, or stopSession *)
(* has run since it was started.                                           *)
Ended(i) == pc[i] = "failed" \/ (i = nStarts /\ hist.stopFrom # "none")

(* C18: a recorder that was started is stopped when its session ends, and  *)
(* every stopped recorder adds exactly one artifact to the history.        *)
C18_OneArtifactPerSession ==
  /\ \A i \in Invs : Ended(i) => rec[i] # "recording"
  /\ history = Cardinality({i \in Invs : rec[i] = "inactive"})

(* C19: no voice of a chunk that arrived before the last handled           *)
(* interrupted event is playing or in the in-flight set.                   *)
C19_NoVoiceFromBeforeInterrupt ==
  \A k \in DOMAIN voices :
    (voices[k].st = "playing" \/ k \in audioSourcesRef)
      => voices[k].seq > hist.intr

(* C20: of two voices of one context in the in-flight set, the one started *)
(* later begins to play no earlier than the other one ends.                *)
C20_NoOverlap ==
  \A j, k \in audioSourcesRef :
    (j < k /\ voices[j].ctx = voices[k].ctx)
      => EffStart(voices[k]) >= EffStart(voices[j]) + voices[j].dur

(* C21: the first voice started in an audio context (the first of a        *)
(* session) is scheduled no later than the device clock of that context    *)
(* at the moment it is started: it does not wait for a time left in the    *)
(* watermark by an earlier session.                                        *)
C21_PlaybackStatePerSession ==
  \A k \in DOMAIN voices :
    (k = 1 \/ voices[k - 1].ctx # voices[k].ctx)
      => voices[k].start <= voices[k].at

(* C22: every member of the in-flight set is a voice that was started and  *)
(* has neither ended nor been stopped, and the set is empty whenever the   *)
(* status is disconnected.                                                 *)
C22_InFlightSetInvariant ==
  /\ \A v \in audioSourcesRef :
       v \in DOMAIN voices /\ voices[v].st = "playing"
  /\ status = "disconnected" => audioSourcesRef = {}

(* C28: whenever the status is disconnected the stored channel handle is   *)
(* null.                                                                   *)
C28_NoHandleWhenDisconnected == status = "disconnected" => sessionRef = 0

(* C30: when a handler resumes with a decoded buffer, the recording mixer  *)
(* it connects the voice to is absent or belongs to the voice's context,   *)
(* and the voice is started.                                               *)
C30_MixerOfCurrentSession ==
  [][(DecodeReturns /\ ~DecodeThrows(Head(pending))) =>
       /\ recordingMixerRef \in {0, Head(pending).ctx}
       /\ Len(voices') = Len(voices) + 1]_vars

(* C25: the audio chunks of a session reach the channel's send in the      *)
(* order their blocks were captured, and no capture callback has two       *)
(* chunks sent.                                                            *)
C25_MicChunksInOrder ==
  \A j, k \in DOMAIN sent :
    j < k =>
      /\ sent[j].n # sent[k].n
      /\ (sent[j].kind = "audio" /\ sent[k].kind = "audio"
            /\ sent[j].inv = sent[k].inv) => sent[j].n < sent[k].n

(* Two microphone blocks were captured before the handshake resolved and   *)
(* both have been sent.                                                    *)
C25_Witness ==
  /\ Len(sent) = 2
  /\ \A k \in DOMAIN sent : sent[k].kind = "audio" /\ sent[k].early

(* C26: a frame timer tick that finds no ready frame emits nothing and     *)
(* changes no session state; a tick with a ready frame starts exactly one  *)
(* image chunk, tagged image/jpeg with no rate, and sends nothing itself.  *)
C26_FrameSamplerSkip ==
  [][\A i \in Invs : FrameTick(i) =>
       /\ sent' = sent
       /\ UNCHANGED <<status, refs, objs, play, pc>>
       /\ IF hist'.tick = "skip"
          THEN outbox' = outbox
          ELSE /\ Len(outbox') = Len(outbox) + 1
               /\ SubSeq(outbox', 1, Len(outbox)) = outbox
               /\ outbox'[Len(outbox')].kind = "image"
               /\ outbox'[Len(outbox')].rate = 0]_vars

(* A tick has skipped while a frame of an earlier tick is still being      *)
(* compressed.                                                             *)
C26_Witness == hist.tick = "skip" /\ Len(outbox) = 1 /\ nOut = 2

(* C27: every outbound audio chunk is tagged with the rate its capture     *)
(* context runs at.                                                        *)
C27_AudioRateTag ==
  \A k \in DOMAIN sent :
    sent[k].kind = "audio" => sent[k].rate = sampleRate[sent[k].inv]

(* C24: the watermark and the in-flight voice set are changed only by the  *)
(* inbound-audio handler (before and after its decode await), the          *)
(* end-of-playback callback, the interrupt handling and teardown; a        *)
(* microphone block callback, a frame timer tick, the sending of a frame,  *)
(* a transcript event and startSession leave both unchanged.               *)
PlaybackWriter ==
  \/ \E i \in Invs : onmessage(i)
  \/ DecodeReturns
  \/ \E v \in DOMAIN voices : VoiceEnded(v)
  \/ StopStep

PlaybackBystander ==
  \/ \E i \in Invs : onaudioprocess(i)
  \/ \E i \in Invs : FrameTick(i)
  \/ \E k \in DOMAIN outbox : FrameReady(k)
  \/ \E i \in Invs : onmessage_transcription(i)
  \/ startSession_App
  \/ startSession_part_000

C24_PlaybackStateWriters ==
  [][/\ (<<nextStartTimeRef, audioSourcesRef>>' #
            <<nextStartTimeRef, audioSourcesRef>>) => PlaybackWriter
     /\ PlaybackBystander => UNCHANGED <<nextStartTimeRef, audioSourcesRef>>]_vars

(* A voice is in flight behind a raised watermark, and a capture callback  *)
(* has sent its chunk and a transcript event has been handled.             *)
C24_Witness ==
  /\ nextStartTimeRef = 1 /\ audioSourcesRef = {1}
  /\ Len(sent) = 1
  /\ hist.frags > 0 /\ voices[1].seq = 1

(* Fragments held by the entries of a transcript history. *)
RECURSIVE Fragments(_)
Fragments(h) ==
  IF h = <<>> THEN 0 ELSE Len(Head(h).text) + Fragments(Tail(h))

(* C29: the history never holds more than 50 entries; every entry has a    *)
(* non-empty text; the entries of one flush are the user's and then the    *)
(* model's; right after a turnComplete event both accumulators are empty;  *)
(* and every fragment received is in an accumulator or in the history.     *)
C29_TranscriptFlush ==
  /\ Len(transcriptions) <= TranscriptCap
  /\ \A k \in DOMAIN transcriptions : transcriptions[k].text # <<>>
  /\ \A k \in DOMAIN transcriptions :
       (k + 1 \in DOMAIN transcriptions
        /\ transcriptions[k].timestamp = transcriptions[k + 1].timestamp)
         => (transcriptions[k].role = "user"
             /\ transcriptions[k + 1].role = "model")
  /\ (hist.tc > 0 /\ hist.tc = nMsgs)
       => (currentInputTranscriptionRef = <<>>
           /\ currentOutputTranscriptionRef = <<>>)
  /\ hist.frags = Len(currentInputTranscriptionRef)
                  + Len(currentOutputTranscriptionRef)
                  + Fragments(transcriptions)

(* C23: every voice added to the in-flight set is eventually removed from  *)
(* it, while the clock of an open context keeps advancing (FairSpec).      *)
C23_EveryVoiceRemoved ==
  \A v \in 1..MaxMsgs : (v \in audioSourcesRef) ~> (v \notin audioSourcesRef)

(* C31: PCM16 encoding maps each sample x to the signed 16-bit value that  *)
(* is congruent modulo 2^16 to x * 32768 truncated toward zero: a sample   *)
(* in [-1, 1) maps to its truncated scaled value, with no change of sign,  *)
(* x = 1.0 maps to -32768, and the output has exactly 2 bytes per sample,  *)
(* which hold the value low byte first.                                    *)
TruncatedOf(y, m) ==
  /\ (m >= 0 => y >= 0) /\ (m <= 0 => y <= 0)
  /\ IF m >= 0
     THEN y * Fraction <= m /\ m < (y + 1) * Fraction
     ELSE m <= y * Fraction /\ (y - 1) * Fraction < m

C31_PCM16Encoding ==
  data # <<>> =>
    /\ Len(int16) = Len(inputData)
    /\ Len(data) = 2 * Len(inputData)
    /\ \A k \in DOMAIN inputData :
         LET m == inputData[k]
             y == int16[k] IN
           /\ y \in (-32768)..32767
           /\ \E w \in (-2)..2 : TruncatedOf(y + w * 65536, m)
           /\ (-(Scale * Fraction) <= m /\ m < Scale * Fraction)
                => TruncatedOf(y, m)
           /\ m = Scale * Fraction => y = -32768
           /\ data[2 * k - 1] \in 0..255 /\ data[2 * k] \in 0..255
           /\ (data[2 * k - 1] + 256 * data[2 * k] - y) % 65536 = 0

(* A block that holds 1.0 and a negative sample with a fractional part has *)
(* been encoded.                                                           *)
C31_Witness ==
  /\ inputData = <<Scale * Fraction, -(Fraction + 1)>>
  /\ int16 = <<-32768, -1>>
  /\ data = <<0, 128, 255, 255>>

====
